---- MODULE Spec2Model ----
(***************************************************************************)
(* EC2 cost optimizer: the recommendation engine of                        *)
(*   src/ec2-cost-optimizer-enhanced.py  (live pricing + metrics)          *)
(*   src/ec2-cost-optimizer.py           (static price table)              *)
(*                                                                         *)
(* Prices are integers in a fixed money unit (the enhanced script's        *)
(* collaborator prices are small integers, the basic script's table is in  *)
(* 1/10000 dollar); a month is 730 hours as in the source.                 *)
(* Instance types are real strings: split('.'), startswith and the         *)
(* f-strings are computed on characters.                                   *)
(***************************************************************************)
EXTENDS Integers, Sequences, FiniteSets, TLC

(* ------------------------------ bounds -------------------------------- *)
MaxInstances == 2      \* records returned by describe_instances
MaxPrice     == 3      \* collaborator prices are 1..MaxPrice
MaxSamples   == 1      \* datapoints returned by the metrics collaborator

(* ------------------------- program constants -------------------------- *)
HoursPerMonth == 730
LowCpuThreshold == 20

None == "None"
\* an optional number: absent (Python None) or present
Absent == << >>
Present(v) == << v >>

\* instance types of the inventory: for the enhanced script a family with two
\* candidates of one category and a shrink entry, a family outside the rules,
\* and a type without a size; for the basic script a t3, an m5 with an
\* unpriced candidate, and a type outside its tables
InstanceTypes(s) ==
    IF s = "enhanced" THEN {"m4.xlarge", "x1e.xlarge", "m5"}
    ELSE {"t3.large", "m5.2xlarge", "c5.large"}
InstanceStates == {"running", "stopped", "terminated"}
Regions == {"us-east-1"}
Scripts == {"enhanced", "basic"}

Prices == 1..MaxPrice
\* what the pricing collaborator (and the parsing of its first match) yields
PricingOutcomes == {[kind |-> "error", price |-> 0], [kind |-> "empty", price |-> 0]}
                       \cup {[kind |-> "price", price |-> p] : p \in Prices}

\* CloudWatch buckets: Average/Maximum CPU percent
DatapointValues == {[Average |-> 10, Maximum |-> 30], [Average |-> 20, Maximum |-> 90]}
Datapoints == UNION {[1..n -> DatapointValues] : n \in 0..MaxSamples}
\* what the metrics collaborator yields
MetricsOutcomes == {[kind |-> "error", datapoints |-> << >>]}
                       \cup {[kind |-> "data", datapoints |-> d] : d \in Datapoints}

EnhancedCategories == {"graviton", "amd", "intel", "downsize"}
BasicCategories == {"graviton", "non_graviton"}

(* --------------------------- string helpers --------------------------- *)
Char(s, k) == SubSeq(s, k, k)

\* str.startswith
StartsWith(s, p) == Len(s) >= Len(p) /\ SubSeq(s, 1, Len(p)) = p

\* str.split(sep) for a one-character separator: the fields, in order
RECURSIVE SplitFrom(_, _, _, _)
SplitFrom(s, sep, k, field) ==
    IF k > Len(s) THEN <<field>>
    ELSE IF Char(s, k) = sep THEN <<field>> \o SplitFrom(s, sep, k + 1, "")
    ELSE SplitFrom(s, sep, k + 1, field \o Char(s, k))

Split(s, sep) == SplitFrom(s, sep, 1, "")

UpperCase == "ABCDEFGHIJKLMNOPQRSTUVWXYZ"
LowerCase == "abcdefghijklmnopqrstuvwxyz"

LowerChar(c) ==
    IF \E k \in 1..Len(UpperCase) : Char(UpperCase, k) = c
    THEN Char(LowerCase, CHOOSE k \in 1..Len(UpperCase) : Char(UpperCase, k) = c)
    ELSE c

\* str.lower
RECURSIVE Lower(_)
Lower(s) == IF Len(s) = 0 THEN "" ELSE LowerChar(Char(s, 1)) \o Lower(SubSeq(s, 2, Len(s)))

\* `sub in s`
Contains(s, sub) == \E k \in 1..(Len(s) - Len(sub) + 1) : SubSeq(s, k, k + Len(sub) - 1) = sub

(* --------------------------- Price Resolver --------------------------- *)
region_map ==
    [r \in {"us-east-1", "us-east-2", "us-west-1", "us-west-2", "eu-west-1",
            "eu-central-1", "ap-southeast-1", "ap-northeast-1"} |->
        CASE r = "us-east-1" -> "US East (N. Virginia)"
          [] r = "us-east-2" -> "US East (Ohio)"
          [] r = "us-west-1" -> "US West (N. California)"
          [] r = "us-west-2" -> "US West (Oregon)"
          [] r = "eu-west-1" -> "EU (Ireland)"
          [] r = "eu-central-1" -> "EU (Frankfurt)"
          [] r = "ap-southeast-1" -> "Asia Pacific (Singapore)"
          [] r = "ap-northeast-1" -> "Asia Pacific (Tokyo)"]

\* region_map.get(region, region)
region_name(reg) == IF reg \in DOMAIN region_map THEN region_map[reg] ELSE reg

cache_key(instance_type, reg) == instance_type \o "_" \o reg

\* variant of get_instance_price: a fetched price is not written to the cache
get_instance_price_nocache(cache, instance_type, reg, outcome) ==
    LET key == cache_key(instance_type, reg) IN
    IF key \in DOMAIN cache
    THEN [ret |-> cache[key], cache |-> cache, invoked |-> FALSE,
          warned |-> FALSE, raised |-> FALSE, location |-> None]
    ELSE [ret |-> IF outcome.kind = "price" THEN outcome.price ELSE 0,
          cache |-> cache, invoked |-> TRUE, warned |-> outcome.kind = "error",
          raised |-> FALSE, location |-> region_name(reg)]

\* variant of get_instance_price: the collaborator call is not guarded, so its
\* exception reaches the caller
get_instance_price_raises(cache, instance_type, reg, outcome) ==
    LET key == cache_key(instance_type, reg) IN
    IF key \in DOMAIN cache
    THEN [ret |-> cache[key], cache |-> cache, invoked |-> FALSE,
          warned |-> FALSE, raised |-> FALSE, location |-> None]
    ELSE IF outcome.kind = "price"
    THEN [ret |-> outcome.price,
          cache |-> [k \in DOMAIN cache \cup {key} |->
                        IF k = key THEN outcome.price ELSE cache[k]],
          invoked |-> TRUE, warned |-> FALSE, raised |-> FALSE,
          location |-> region_name(reg)]
    ELSE [ret |-> 0, cache |-> cache, invoked |-> TRUE, warned |-> FALSE,
          raised |-> outcome.kind = "error", location |-> region_name(reg)]

\* get_instance_price: `outcome` is what pricing.get_products and the parsing
\* of its first match would produce if the collaborator is asked: "error"
\* (any exception inside the try), "empty" (no PriceList) or the parsed price.
\* Result: the returned value, the cache afterwards, whether the collaborator
\* was invoked, whether a warning was printed, and whether an exception
\* escaped to the caller.
get_instance_price(cache, instance_type, reg, outcome) ==
    LET key == cache_key(instance_type, reg) IN
    IF key \in DOMAIN cache
    THEN [ret |-> cache[key], cache |-> cache, invoked |-> FALSE,
          warned |-> FALSE, raised |-> FALSE, location |-> None]
    ELSE IF outcome.kind = "error"
    THEN [ret |-> 0, cache |-> cache, invoked |-> TRUE,
          warned |-> TRUE, raised |-> FALSE, location |-> region_name(reg)]
    ELSE IF outcome.kind = "empty"
    THEN [ret |-> 0, cache |-> cache, invoked |-> TRUE,
          warned |-> FALSE, raised |-> FALSE, location |-> region_name(reg)]
    ELSE [ret |-> outcome.price,
          cache |-> [k \in DOMAIN cache \cup {key} |->
                        IF k = key THEN outcome.price ELSE cache[k]],
          invoked |-> TRUE, warned |-> FALSE, raised |-> FALSE,
          location |-> region_name(reg)]

\* get_instance_pricing_estimate of the basic script (1/10000 dollar per hour)
pricing_map ==
    [t \in {"t3.nano", "t3.micro", "t3.small", "t3.medium", "t3.large", "t3.xlarge", "t3.2xlarge",
            "t3a.nano", "t3a.micro", "t3a.small", "t3a.medium", "t3a.large", "t3a.xlarge", "t3a.2xlarge",
            "t4g.nano", "t4g.micro", "t4g.small", "t4g.medium", "t4g.large", "t4g.xlarge", "t4g.2xlarge",
            "m5.large", "m5.xlarge", "m5.2xlarge",
            "m6i.large", "m6i.xlarge", "m6i.2xlarge",
            "m6a.large", "m6a.xlarge", "m6a.2xlarge",
            "m7g.medium", "m7g.large", "m7g.xlarge"} |->
        CASE t = "t3.nano" -> 52 [] t = "t3.micro" -> 104 [] t = "t3.small" -> 208
          [] t = "t3.medium" -> 416 [] t = "t3.large" -> 832 [] t = "t3.xlarge" -> 1664
          [] t = "t3.2xlarge" -> 3328
          [] t = "t3a.nano" -> 47 [] t = "t3a.micro" -> 94 [] t = "t3a.small" -> 188
          [] t = "t3a.medium" -> 376 [] t = "t3a.large" -> 752 [] t = "t3a.xlarge" -> 1504
          [] t = "t3a.2xlarge" -> 3008
          [] t = "t4g.nano" -> 42 [] t = "t4g.micro" -> 84 [] t = "t4g.small" -> 168
          [] t = "t4g.medium" -> 336 [] t = "t4g.large" -> 672 [] t = "t4g.xlarge" -> 1344
          [] t = "t4g.2xlarge" -> 2688
          [] t = "m5.large" -> 960 [] t = "m5.xlarge" -> 1920 [] t = "m5.2xlarge" -> 3840
          [] t = "m6i.large" -> 960 [] t = "m6i.xlarge" -> 1920 [] t = "m6i.2xlarge" -> 3840
          [] t = "m6a.large" -> 864 [] t = "m6a.xlarge" -> 1728 [] t = "m6a.2xlarge" -> 3456
          [] t = "m7g.medium" -> 408 [] t = "m7g.large" -> 816 [] t = "m7g.xlarge" -> 1632]

get_instance_pricing_estimate(instance_type) ==
    IF instance_type \in DOMAIN pricing_map THEN pricing_map[instance_type] ELSE 0

(* ------------------------ Utilization Analyzer ------------------------ *)
RECURSIVE SumAverage(_)
SumAverage(dps) == IF dps = <<>> THEN 0 ELSE dps[1].Average + SumAverage(Tail(dps))

MaxMaximum(dps) == CHOOSE m \in {dps[k].Maximum : k \in 1..Len(dps)} :
                       \A k \in 1..Len(dps) : dps[k].Maximum <= m

NoMetrics == [cpu_avg |-> Absent, cpu_max |-> Absent, has_data |-> FALSE]

\* variant of get_instance_metrics: no samples are reported as 0 percent
get_instance_metrics_zero(outcome) ==
    IF outcome.kind = "error"
    THEN [metrics |-> NoMetrics, warned |-> TRUE, raised |-> FALSE]
    ELSE LET dps == outcome.datapoints IN
         [metrics |->
            [cpu_avg |-> IF Len(dps) > 0
                         THEN Present([num |-> SumAverage(dps), den |-> Len(dps)])
                         ELSE Present([num |-> 0, den |-> 1]),
             cpu_max |-> IF Len(dps) > 0 THEN Present(MaxMaximum(dps)) ELSE Present(0),
             has_data |-> Len(dps) > 0],
          warned |-> FALSE, raised |-> FALSE]

\* variant of get_instance_metrics: the collaborator's exception is not caught
get_instance_metrics_raises(outcome) ==
    LET dps == outcome.datapoints IN
    [metrics |->
        [cpu_avg |-> IF Len(dps) > 0
                     THEN Present([num |-> SumAverage(dps), den |-> Len(dps)])
                     ELSE Absent,
         cpu_max |-> IF Len(dps) > 0 THEN Present(MaxMaximum(dps)) ELSE Absent,
         has_data |-> Len(dps) > 0],
     warned |-> FALSE, raised |-> outcome.kind = "error"]

\* get_instance_metrics: `outcome` is "error" (exception inside the try) or
\* the Datapoints of the response.  cpu_avg is the exact quotient sum/len,
\* kept as numerator and denominator.
get_instance_metrics(outcome) ==
    IF outcome.kind = "error"
    THEN [metrics |-> NoMetrics, warned |-> TRUE, raised |-> FALSE]
    ELSE LET dps == outcome.datapoints IN
         [metrics |->
            [cpu_avg |-> IF Len(dps) > 0
                         THEN Present([num |-> SumAverage(dps), den |-> Len(dps)])
                         ELSE Absent,
             cpu_max |-> IF Len(dps) > 0 THEN Present(MaxMaximum(dps)) ELSE Absent,
             has_data |-> Len(dps) > 0],
          warned |-> FALSE, raised |-> FALSE]

\* cpu_avg < bound, for the quotient num/den
AvgBelow(cpu_avg, bound) == cpu_avg.num < bound * cpu_avg.den

(* ------------------------ Alternative Generator ----------------------- *)
Alt(t, d, c) == [type |-> t, description |-> d, category |-> c]

downsize_map ==
    [s \in {"xlarge", "large", "medium", "small", "2xlarge", "4xlarge"} |->
        CASE s = "xlarge" -> "large"
          [] s = "large" -> "medium"
          [] s = "medium" -> "small"
          [] s = "small" -> "micro"
          [] s = "2xlarge" -> "xlarge"
          [] s = "4xlarge" -> "2xlarge"]

\* the if/elif chain over the family (enhanced script)
family_alternatives(family, size) ==
    IF StartsWith(family, "t3") THEN
        << Alt("t4g." \o size, "Graviton2 ARM - 20% cheaper", "graviton"),
           Alt("t3a." \o size, "AMD - 10% cheaper", "amd") >>
    ELSE IF StartsWith(family, "t2") THEN
        << Alt("t3." \o size, "Newer generation", "intel"),
           Alt("t4g." \o size, "Graviton2 ARM - 20% cheaper", "graviton") >>
    ELSE IF family = "m5" THEN
        << Alt("m7g." \o size, "Graviton3 - Latest gen", "graviton"),
           Alt("m6a." \o size, "AMD - 10% cheaper", "amd"),
           Alt("m6i." \o size, "Intel 6th gen", "intel") >>
    ELSE IF family = "m6i" THEN
        << Alt("m7g." \o size, "Graviton3 - Better price/perf", "graviton"),
           Alt("m6a." \o size, "AMD - 10% cheaper", "amd") >>
    ELSE IF family = "m4" THEN
        << Alt("m7g." \o size, "Graviton3 - Latest", "graviton"),
           Alt("m6i." \o size, "Intel 6th gen", "intel"),
           Alt("m5." \o size, "Intel 5th gen", "intel") >>
    ELSE IF family = "c5" THEN
        << Alt("c7g." \o size, "Graviton3 - Best price/perf", "graviton"),
           Alt("c6a." \o size, "AMD", "amd"),
           Alt("c6i." \o size, "Intel 6th gen", "intel") >>
    ELSE IF family = "c4" THEN
        << Alt("c7g." \o size, "Graviton3", "graviton"),
           Alt("c6i." \o size, "Intel 6th gen", "intel") >>
    ELSE IF family = "r5" THEN
        << Alt("r7g." \o size, "Graviton3", "graviton"),
           Alt("r6a." \o size, "AMD", "amd"),
           Alt("r6i." \o size, "Intel 6th gen", "intel") >>
    ELSE IF family = "r4" THEN
        << Alt("r7g." \o size, "Graviton3", "graviton"),
           Alt("r6i." \o size, "Intel 6th gen", "intel") >>
    ELSE << >>

\* the low-CPU branch: at most one downsize candidate.  The rationale text
\* carries the formatted average in the source; the number is left out here.
downsize_alternatives(family, size, cpu_avg) ==
    IF cpu_avg # Absent /\ AvgBelow(cpu_avg[1], LowCpuThreshold) /\ size \in DOMAIN downsize_map
    THEN << Alt(family \o "." \o downsize_map[size], "Downsize (low CPU)", "downsize") >>
    ELSE << >>

\* variant of get_alternative_instances: the downsize candidate is put first
get_alternative_instances_first(current_type, cpu_avg) ==
    LET parts == Split(current_type, ".") IN
    IF Len(parts) # 2 THEN << >>
    ELSE downsize_alternatives(parts[1], parts[2], cpu_avg)
             \o family_alternatives(parts[1], parts[2])

\* get_alternative_instances of the enhanced script
get_alternative_instances(current_type, cpu_avg) ==
    LET parts == Split(current_type, ".") IN
    IF Len(parts) # 2 THEN << >>
    ELSE family_alternatives(parts[1], parts[2])
             \o downsize_alternatives(parts[1], parts[2], cpu_avg)

\* get_alternative_instances of the basic script: two lookup tables
basic_sizes == {"nano", "micro", "small", "medium", "large", "xlarge", "2xlarge"}
t3_to_alternatives ==
    [t \in {"t3." \o s : s \in basic_sizes} |->
        << <<"t4g." \o Split(t, ".")[2], "Graviton2 ARM">>,
           <<"t3a." \o Split(t, ".")[2], "AMD">> >>]
m5_to_alternatives ==
    [t \in {"m5." \o s : s \in {"large", "xlarge", "2xlarge"}} |->
        << <<"m7g." \o Split(t, ".")[2], "Graviton3">>,
           <<"m6a." \o Split(t, ".")[2], "AMD">>,
           <<"m6i." \o Split(t, ".")[2], "Intel 6th gen">> >>]

basic_get_alternative_instances(current_type) ==
    IF current_type \in DOMAIN t3_to_alternatives THEN t3_to_alternatives[current_type]
    ELSE IF current_type \in DOMAIN m5_to_alternatives THEN m5_to_alternatives[current_type]
    ELSE << >>

\* the category test of the basic script, on the lower-cased description
is_graviton(description) ==
    Contains(Lower(description), "graviton") \/ Contains(Lower(description), "arm")

(* -------------------------- Savings Aggregator ------------------------- *)
\* a / b * 100 as an exact quotient
Pct(a, b) == [num |-> a * 100, den |-> b]

\* variant of skip_candidate: the unknown-price test is missing
skip_candidate_never(alt_price) == FALSE

\* `if alt_price == 0: continue`
skip_candidate(alt_price) == alt_price = 0

\* variant of savings_percent: the division is not guarded
savings_percent_unguarded(savings_per_hour, price) == Pct(savings_per_hour, price)

\* savings_percent = (savings_per_hour / current_price * 100) if current_price > 0 else 0
savings_percent(savings_per_hour, price) ==
    IF price > 0 THEN Pct(savings_per_hour, price) ELSE [num |-> 0, den |-> 1]

\* best_savings_by_type[category]: reading a defaultdict(float) inserts 0.0
defaultdict_get(best, category) ==
    IF category \in DOMAIN best THEN best
    ELSE [c \in DOMAIN best \cup {category} |-> IF c = category THEN 0 ELSE best[c]]

\* variant of track_best: the last candidate of a category wins
track_best_last(best, category, savings_per_month) ==
    [defaultdict_get(best, category) EXCEPT ![category] = savings_per_month]

\* variant of track_best: the first candidate of a category initialises the best
track_best_first(best, category, savings_per_month) ==
    IF category \in DOMAIN best
    THEN (IF savings_per_month > best[category]
          THEN [best EXCEPT ![category] = savings_per_month] ELSE best)
    ELSE [c \in DOMAIN best \cup {category} |->
            IF c = category THEN savings_per_month ELSE best[c]]

\* if savings_per_month > best_savings_by_type[category]: ... = savings_per_month
track_best(best, category, savings_per_month) ==
    LET b == defaultdict_get(best, category) IN
    IF savings_per_month > b[category]
    THEN [b EXCEPT ![category] = savings_per_month]
    ELSE b

\* for category, savings in best_savings_by_type.items(): total[category] += savings
add_to_totals(totals, best) ==
    [c \in DOMAIN totals |-> IF c \in DOMAIN best THEN totals[c] + best[c] ELSE totals[c]]

\* the basic script's two running bests
basic_track_best(best, savings_per_month) ==
    IF savings_per_month > best THEN savings_per_month ELSE best

\* variant of no_recommendations: the summary is always printed
no_recommendations_never(count) == FALSE

\* `if instances_analyzed == 0` before the summary
no_recommendations(count) == count = 0

\* variant of should_profile: every priced instance is profiled
should_profile_always(metrics_enabled, state) == TRUE

\* `if check_metrics and state == 'running'`
should_profile(metrics_enabled, state) == metrics_enabled /\ state = "running"

(* ------------------------------- state -------------------------------- *)
VARIABLES
    script,                  \* which of the two scripts runs
    region,                  \* self.region
    check_metrics,           \* not --no-metrics
    inventory_size,          \* number of records describe_instances returned
    i,                       \* position of the walk in the inventory
    instance,                \* the record the walk is at
    pc,                      \* control point of the walk
    pricing_cache,           \* self.pricing_cache
    instances_analyzed, total_current_cost,
    total_potential_savings, \* enhanced: category -> total
    total_graviton_savings, total_non_graviton_savings,   \* basic
    current_price, metrics, alternatives,
    j,                       \* position in alternatives
    best_savings_by_type,    \* enhanced: defaultdict(float)
    best_graviton_savings, best_non_graviton_savings,     \* basic
    report,                  \* what the summary step emitted
    \* history, for stating properties:
    before,                  \* the fleet counters when this instance started
    alt_prices,              \* resolved price of each candidate evaluated so far
    entries,                 \* recommendation lines emitted for this instance
    spec_totals,             \* sum over analysed instances of the best per category
    resolved,                \* cache key -> outcome of the latest resolution
    last_price_call,         \* the latest get_instance_price call
    last_metrics_call        \* the metrics step of this instance

fleet == <<instances_analyzed, total_current_cost, total_potential_savings,
           total_graviton_savings, total_non_graviton_savings>>
locals == <<current_price, metrics, alternatives, j, best_savings_by_type,
            best_graviton_savings, best_non_graviton_savings>>
config == <<script, region, check_metrics, inventory_size>>
history == <<before, alt_prices, entries, spec_totals, resolved, last_price_call,
             last_metrics_call>>
vars == <<config, i, instance, pc, pricing_cache, fleet, locals, report, history>>

\* the records the inventory can hold; the walk reads them one at a time, so
\* each record is drawn when the walk reaches it
Records(s) == [type : InstanceTypes(s), state : InstanceStates]
NoRecord == [type |-> None, state |-> None]

EmptyMap == [k \in {} |-> 0]
ZeroTotals == [c \in EnhancedCategories |-> 0]
NoCall == [key |-> None, ret |-> 0, invoked |-> FALSE, warned |-> FALSE,
           outcome |-> None, repeated |-> FALSE, prev |-> [ret |-> 0, ok |-> FALSE],
           location |-> None]
NoReport == [kind |-> None]
NoMetricsCall == [kind |-> None, warned |-> FALSE]

\* the category totals of whichever script runs
CategoryTotals ==
    IF script = "enhanced" THEN total_potential_savings
    ELSE [c \in BasicCategories |->
            IF c = "graviton" THEN total_graviton_savings ELSE total_non_graviton_savings]

Snapshot == [analyzed |-> instances_analyzed, cost |-> total_current_cost,
             totals |-> CategoryTotals]

Init ==
    /\ script \in Scripts
    /\ region \in Regions
    /\ check_metrics \in BOOLEAN
    /\ script = "basic" => check_metrics = FALSE
    /\ inventory_size \in 0..MaxInstances
    /\ i = 0
    /\ instance = NoRecord
    /\ pc = "next"
    /\ pricing_cache = EmptyMap
    /\ instances_analyzed = 0
    /\ total_current_cost = 0
    /\ total_potential_savings = ZeroTotals
    /\ total_graviton_savings = 0
    /\ total_non_graviton_savings = 0
    /\ current_price = -1
    /\ metrics = NoMetrics
    /\ alternatives = << >>
    /\ j = 0
    /\ best_savings_by_type = EmptyMap
    /\ best_graviton_savings = 0
    /\ best_non_graviton_savings = 0
    /\ report = NoReport
    /\ before = [analyzed |-> 0, cost |-> 0,
                 totals |-> IF script = "enhanced" THEN ZeroTotals
                            ELSE [c \in BasicCategories |-> 0]]
    /\ alt_prices = << >>
    /\ entries = << >>
    /\ spec_totals = IF script = "enhanced" THEN ZeroTotals ELSE [c \in BasicCategories |-> 0]
    /\ resolved = EmptyMap
    /\ last_price_call = NoCall
    /\ last_metrics_call = NoMetricsCall


(* ------------------- what the specification calls "best" -------------- *)
CategoryOf(alt) ==
    IF script = "enhanced" THEN alt.category
    ELSE IF is_graviton(alt[2]) THEN "graviton" ELSE "non_graviton"

Max(S) == CHOOSE m \in S : \A x \in S : x <= m

\* monthly savings of the evaluated candidates of category c whose resolved
\* price is nonzero
MonthlySavingsOf(c) ==
    {(current_price - alt_prices[k]) * HoursPerMonth :
        k \in {n \in 1..Len(alt_prices) : CategoryOf(alternatives[n]) = c /\ alt_prices[n] # 0}}

\* max(0, largest monthly saving of the category)
BestOf(c) == IF MonthlySavingsOf(c) = {} THEN 0 ELSE Max(MonthlySavingsOf(c) \cup {0})

(* ------------------------------ the walk ------------------------------ *)
\* for reservation in ...: for instance in ...: the next record, or the end.
\* Every local of the loop body is assigned before it is read in an iteration,
\* so the locals start each iteration in their unassigned state.
NextInstance ==
    /\ pc = "next"
    /\ IF i < inventory_size
       THEN /\ i' = i + 1
            /\ instance' \in Records(script)
            /\ pc' = "start"
            /\ current_price' = -1
            /\ metrics' = NoMetrics
            /\ alternatives' = << >>
            /\ j' = 0
            /\ best_savings_by_type' = EmptyMap
            /\ best_graviton_savings' = 0
            /\ best_non_graviton_savings' = 0
            /\ before' = Snapshot
            /\ alt_prices' = << >>
            /\ entries' = << >>
            /\ last_metrics_call' = NoMetricsCall
            /\ UNCHANGED <<spec_totals, resolved, last_price_call>>
       ELSE /\ pc' = "summary"
            /\ UNCHANGED <<i, instance, locals, history>>
    /\ UNCHANGED <<config, pricing_cache, fleet, report>>

\* history of one get_instance_price call, by the exact (type, region) pair
LogPriceCall(instance_type, r, outcome) ==
    LET pair == <<instance_type, region>> IN
    /\ last_price_call' =
          [key |-> pair, ret |-> r.ret, invoked |-> r.invoked, warned |-> r.warned,
           outcome |-> IF r.invoked THEN outcome.kind ELSE "hit",
           repeated |-> pair \in DOMAIN resolved,
           prev |-> IF pair \in DOMAIN resolved THEN resolved[pair]
                    ELSE [ret |-> 0, ok |-> FALSE],
           location |-> r.location]
    /\ resolved' = [k \in DOMAIN resolved \cup {pair} |->
                      IF k = pair
                      THEN [ret |-> r.ret, ok |-> (~r.invoked \/ outcome.kind = "price")]
                      ELSE resolved[k]]

\* enhanced: `if state == 'terminated': continue`
CheckState ==
    /\ script = "enhanced"
    /\ pc = "start"
    /\ pc' = IF instance.state = "terminated" THEN "next" ELSE "price"
    /\ UNCHANGED <<config, i, instance, pricing_cache, fleet, locals, report, history>>

\* enhanced: current_price = self.get_instance_price(...); if 0: continue
ResolveCurrentPrice ==
    /\ script = "enhanced"
    /\ pc = "price"
    /\ \E outcome \in PricingOutcomes :
         LET r == get_instance_price(pricing_cache, instance.type, region, outcome) IN
         /\ LogPriceCall(instance.type, r, outcome)
         /\ pricing_cache' = r.cache
         /\ current_price' = IF r.raised THEN current_price ELSE r.ret
         /\ pc' = IF r.raised THEN "aborted"
                  ELSE IF r.ret = 0 THEN "next" ELSE "profile"
    /\ UNCHANGED <<config, i, instance, fleet, metrics, alternatives, j, best_savings_by_type,
                   best_graviton_savings, best_non_graviton_savings, report,
                   before, alt_prices, entries, spec_totals, last_metrics_call>>

\* enhanced: metrics = default; if check_metrics and running: get_instance_metrics
Profile ==
    /\ script = "enhanced"
    /\ pc = "profile"
    /\ IF should_profile(check_metrics, instance.state)
       THEN \E outcome \in MetricsOutcomes :
              LET m == get_instance_metrics(outcome) IN
              /\ metrics' = IF m.raised THEN metrics ELSE m.metrics
              /\ last_metrics_call' =
                    [kind |-> IF outcome.kind = "error" THEN "error"
                              ELSE IF outcome.datapoints = << >> THEN "empty" ELSE "data",
                     warned |-> m.warned]
              /\ pc' = IF m.raised THEN "aborted" ELSE "generate"
       ELSE /\ metrics' = NoMetrics
            /\ last_metrics_call' = [kind |-> "skipped", warned |-> FALSE]
            /\ pc' = "generate"
    /\ UNCHANGED <<config, i, instance, pricing_cache, fleet, current_price, alternatives, j,
                   best_savings_by_type, best_graviton_savings, best_non_graviton_savings,
                   report, before, alt_prices, entries, spec_totals, resolved,
                   last_price_call>>

\* enhanced: alternatives = get_alternative_instances(...); if none: continue;
\* instances_analyzed += 1; total_current_cost += current_monthly
GenerateCandidates ==
    /\ script = "enhanced"
    /\ pc = "generate"
    /\ alternatives' = get_alternative_instances(instance.type, metrics.cpu_avg)
    /\ IF alternatives' = << >>
       THEN /\ pc' = "next"
            /\ UNCHANGED <<instances_analyzed, total_current_cost, j>>
       ELSE /\ pc' = "evaluate"
            /\ instances_analyzed' = instances_analyzed + 1
            /\ total_current_cost' = total_current_cost + current_price * HoursPerMonth
            /\ j' = 1
    /\ UNCHANGED <<config, i, instance, pricing_cache, total_potential_savings,
                   total_graviton_savings, total_non_graviton_savings, current_price,
                   metrics, best_savings_by_type, best_graviton_savings,
                   best_non_graviton_savings, report, history>>

\* the recommendation line printed for a candidate with a price
Entry(alt_type, alt_price, price) ==
    LET savings_per_hour == price - alt_price IN
    [type |-> alt_type, alt_price |-> alt_price,
     savings_per_hour |-> savings_per_hour,
     savings_per_month |-> savings_per_hour * HoursPerMonth,
     savings_percent |-> savings_percent(savings_per_hour, price),
     kind |-> IF savings_per_hour > 0 THEN "saving"
              ELSE IF savings_per_hour < 0 THEN "increase" ELSE "similar"]

\* enhanced: one iteration of `for alt_type, description, category in alternatives`
EvaluateCandidate ==
    /\ script = "enhanced"
    /\ pc = "evaluate"
    /\ j <= Len(alternatives)
    /\ \E outcome \in PricingOutcomes :
         LET alt == alternatives[j]
             r == get_instance_price(pricing_cache, alt.type, region, outcome)
             e == Entry(alt.type, r.ret, current_price)
         IN
         /\ LogPriceCall(alt.type, r, outcome)
         /\ pricing_cache' = r.cache
         /\ IF r.raised
            THEN /\ pc' = "aborted"
                 /\ UNCHANGED <<j, best_savings_by_type, alt_prices, entries>>
            ELSE /\ pc' = pc
                 /\ j' = j + 1
                 /\ alt_prices' = Append(alt_prices, r.ret)
                 /\ IF skip_candidate(r.ret)
                    THEN UNCHANGED <<best_savings_by_type, entries>>
                    ELSE /\ best_savings_by_type' =
                               track_best(best_savings_by_type, alt.category,
                                          e.savings_per_month)
                         /\ entries' = Append(entries, e)
    /\ UNCHANGED <<config, i, instance, fleet, current_price, metrics, alternatives,
                   best_graviton_savings, best_non_graviton_savings, report,
                   before, spec_totals, last_metrics_call>>

\* enhanced: after the loop, `total_potential_savings[category] += savings`
AddToTotals ==
    /\ script = "enhanced"
    /\ pc = "evaluate"
    /\ j > Len(alternatives)
    /\ total_potential_savings' = add_to_totals(total_potential_savings, best_savings_by_type)
    /\ spec_totals' = [c \in DOMAIN spec_totals |-> spec_totals[c] + BestOf(c)]
    /\ pc' = "next"
    /\ UNCHANGED <<config, i, instance, pricing_cache, instances_analyzed, total_current_cost,
                   total_graviton_savings, total_non_graviton_savings, locals, report,
                   before, alt_prices, entries, resolved, last_price_call,
                   last_metrics_call>>

\* print_summary: a percentage line for graviton, amd and downsize when the
\* category has savings (intel has no line), and the maximum over all four.
\* The divisions by current_cost are not guarded: a zero divisor raises.
print_summary(count, current_cost, savings) ==
    LET shown == {c \in {"graviton", "amd", "downsize"} : savings[c] > 0}
        max_savings == Max({savings[c] : c \in DOMAIN savings})
    IN
    [kind |-> "summary", count |-> count, current_cost |-> current_cost,
     pct |-> [c \in shown |-> Pct(savings[c], current_cost)],
     max_pct |-> IF max_savings > 0 THEN << Pct(max_savings, current_cost) >> ELSE << >>,
     raised |-> ((shown # {} \/ max_savings > 0) /\ current_cost = 0)]

\* enhanced: `if instances_analyzed == 0: ... else: self.print_summary(...)`
Summarize ==
    /\ script = "enhanced"
    /\ pc = "summary"
    /\ LET out == IF no_recommendations(instances_analyzed)
                  THEN [kind |-> "no_recommendations", raised |-> FALSE]
                  ELSE print_summary(instances_analyzed, total_current_cost,
                                     total_potential_savings)
       IN /\ report' = out
          /\ pc' = IF out.raised THEN "aborted" ELSE "end"
    /\ UNCHANGED <<config, i, instance, pricing_cache, fleet, locals, history>>


(* --------------------------- the basic script ------------------------- *)
\* basic: price and alternatives of the record; `if not alternatives: continue`;
\* instances_analyzed += 1; total_current_cost += current_monthly
BasicPrepare ==
    /\ script = "basic"
    /\ pc = "start"
    /\ current_price' = get_instance_pricing_estimate(instance.type)
    /\ alternatives' = basic_get_alternative_instances(instance.type)
    /\ IF alternatives' = << >>
       THEN /\ pc' = "next"
            /\ UNCHANGED <<instances_analyzed, total_current_cost, j>>
       ELSE /\ pc' = "evaluate"
            /\ instances_analyzed' = instances_analyzed + 1
            /\ total_current_cost' = total_current_cost + current_price' * HoursPerMonth
            /\ j' = 1
    /\ UNCHANGED <<config, i, instance, pricing_cache, total_potential_savings,
                   total_graviton_savings, total_non_graviton_savings, metrics,
                   best_savings_by_type, best_graviton_savings,
                   best_non_graviton_savings, report, history>>

\* basic: one iteration of `for alt_type, description in alternatives`
BasicEvaluateCandidate ==
    /\ script = "basic"
    /\ pc = "evaluate"
    /\ j <= Len(alternatives)
    /\ LET alt_type == alternatives[j][1]
           description == alternatives[j][2]
           alt_price == get_instance_pricing_estimate(alt_type)
           e == Entry(alt_type, alt_price, current_price)
       IN
       /\ j' = j + 1
       /\ alt_prices' = Append(alt_prices, alt_price)
       /\ IF skip_candidate(alt_price)
          THEN UNCHANGED <<best_graviton_savings, best_non_graviton_savings, entries>>
          ELSE /\ entries' = Append(entries, e)
               /\ IF is_graviton(description)
                  THEN /\ best_graviton_savings' =
                             basic_track_best(best_graviton_savings, e.savings_per_month)
                       /\ UNCHANGED best_non_graviton_savings
                  ELSE /\ best_non_graviton_savings' =
                             basic_track_best(best_non_graviton_savings, e.savings_per_month)
                       /\ UNCHANGED best_graviton_savings
    /\ UNCHANGED <<config, i, instance, pc, pricing_cache, fleet, current_price, metrics,
                   alternatives, best_savings_by_type, report, before, spec_totals,
                   resolved, last_price_call, last_metrics_call>>

\* basic: total_graviton_savings += ...; total_non_graviton_savings += ...
BasicAddToTotals ==
    /\ script = "basic"
    /\ pc = "evaluate"
    /\ j > Len(alternatives)
    /\ total_graviton_savings' = total_graviton_savings + best_graviton_savings
    /\ total_non_graviton_savings' = total_non_graviton_savings + best_non_graviton_savings
    /\ spec_totals' = [c \in DOMAIN spec_totals |-> spec_totals[c] + BestOf(c)]
    /\ pc' = "next"
    /\ UNCHANGED <<config, i, instance, pricing_cache, instances_analyzed, total_current_cost,
                   total_potential_savings, locals, report, before, alt_prices, entries,
                   resolved, last_price_call, last_metrics_call>>

\* basic: the summary block, with its guarded percentages
basic_summary(count, current_cost, graviton, non_graviton) ==
    LET savings == [c \in BasicCategories |-> IF c = "graviton" THEN graviton ELSE non_graviton]
        shown == {c \in BasicCategories : savings[c] > 0}
    IN
    [kind |-> "summary", count |-> count, current_cost |-> current_cost,
     pct |-> [c \in shown |-> IF current_cost > 0 THEN Pct(savings[c], current_cost)
                              ELSE [num |-> 0, den |-> 1]],
     max_pct |-> << >>,
     raised |-> FALSE]

\* basic: `if instances_analyzed == 0: ... else: SUMMARY`
BasicSummarize ==
    /\ script = "basic"
    /\ pc = "summary"
    /\ LET out == IF no_recommendations(instances_analyzed)
                  THEN [kind |-> "no_recommendations", raised |-> FALSE]
                  ELSE basic_summary(instances_analyzed, total_current_cost,
                                     total_graviton_savings, total_non_graviton_savings)
       IN /\ report' = out
          /\ pc' = IF out.raised THEN "aborted" ELSE "end"
    /\ UNCHANGED <<config, i, instance, pricing_cache, fleet, locals, history>>

(* --------------------------- specification ---------------------------- *)
Next ==
    \/ NextInstance
    \/ CheckState
    \/ ResolveCurrentPrice
    \/ Profile
    \/ GenerateCandidates
    \/ EvaluateCandidate
    \/ AddToTotals
    \/ Summarize
    \/ BasicPrepare
    \/ BasicEvaluateCandidate
    \/ BasicAddToTotals
    \/ BasicSummarize

Spec == Init /\ [][Next]_vars

(* ---------------- the enhanced pass, run to completion ---------------- *)
\* The pass is one sequential loop: whenever a step is possible it is taken,
\* and every collaborator call returns (with a result or an exception).  The
\* fair specification runs the enhanced script on a slice of the inputs that
\* keeps every kind of failure: running instances of a well-formed and of a
\* malformed type, one price, and metrics that fail, are empty or hold one sample.
LiveTypes == {"m4.xlarge", "m5"}

LiveInit ==
    /\ Init
    /\ script = "enhanced"
    /\ check_metrics

LiveInputs ==
    /\ instance'.type \in LiveTypes \cup {None}
    /\ instance'.state \in {"running", None}
    /\ \A k \in DOMAIN pricing_cache' : pricing_cache'[k] = 1
    /\ metrics'.cpu_avg \in {Absent, Present([num |-> 10, den |-> 1])}

LiveNext ==
    /\ \/ NextInstance
       \/ CheckState
       \/ ResolveCurrentPrice
       \/ Profile
       \/ GenerateCandidates
       \/ EvaluateCandidate
       \/ AddToTotals
       \/ Summarize
    /\ LiveInputs

FairSpec == LiveInit /\ [][LiveNext]_vars /\ WF_vars(LiveNext)

(* ------------- the alternative generators as pure functions ----------- *)
GenFamilies == {"t3", "t3a", "t2", "m5", "m6i", "m4", "c5", "c4", "r5", "r4", "x1e"}
GenSizes == {"nano", "micro", "small", "medium", "large", "xlarge", "2xlarge",
             "4xlarge", "10xlarge"}
GenMalformed == {"", "m5", "m5.large.1"}
GenTypes == {f \o "." \o z : f \in GenFamilies, z \in GenSizes} \cup GenMalformed
GenCpu == {Absent} \cup
          {Present(q) : q \in {[num |-> 0, den |-> 1], [num |-> 10, den |-> 1],
                                [num |-> 39, den |-> 2], [num |-> 20, den |-> 1],
                                [num |-> 41, den |-> 2], [num |-> 90, den |-> 1]}}

GenInit ==
    /\ script \in Scripts
    /\ region \in Regions
    /\ check_metrics = (script = "enhanced")
    /\ inventory_size = 1
    /\ i = 1
    /\ instance \in [type : GenTypes, state : {"running"}]
    /\ pc = "generate"
    /\ pricing_cache = EmptyMap
    /\ instances_analyzed = 0
    /\ total_current_cost = 0
    /\ total_potential_savings = ZeroTotals
    /\ total_graviton_savings = 0
    /\ total_non_graviton_savings = 0
    /\ current_price = -1
    /\ metrics \in {[cpu_avg |-> a, cpu_max |-> a, has_data |-> a # Absent] :
                        a \in IF script = "enhanced" THEN GenCpu ELSE {Absent}}
    /\ alternatives = << >>
    /\ j = 0
    /\ best_savings_by_type = EmptyMap
    /\ best_graviton_savings = 0
    /\ best_non_graviton_savings = 0
    /\ report = NoReport
    /\ before = [analyzed |-> 0, cost |-> 0,
                 totals |-> IF script = "enhanced" THEN ZeroTotals
                            ELSE [c \in BasicCategories |-> 0]]
    /\ alt_prices = << >>
    /\ entries = << >>
    /\ spec_totals = before.totals
    /\ resolved = EmptyMap
    /\ last_price_call = NoCall
    /\ last_metrics_call = NoMetricsCall

\* enhanced: alternatives = get_alternative_instances(current_type, cpu_avg)
Generate ==
    /\ script = "enhanced"
    /\ pc = "generate"
    /\ alternatives' = get_alternative_instances(instance.type, metrics.cpu_avg)
    /\ pc' = "generated"
    /\ UNCHANGED <<config, i, instance, pricing_cache, fleet, current_price, metrics, j,
                   best_savings_by_type, best_graviton_savings,
                   best_non_graviton_savings, report, history>>

\* basic: alternatives = get_alternative_instances(current_type)
BasicGenerate ==
    /\ script = "basic"
    /\ pc = "generate"
    /\ alternatives' = basic_get_alternative_instances(instance.type)
    /\ pc' = "generated"
    /\ UNCHANGED <<config, i, instance, pricing_cache, fleet, current_price, metrics, j,
                   best_savings_by_type, best_graviton_savings,
                   best_non_graviton_savings, report, history>>

GenNext == Generate \/ BasicGenerate

SpecGen == GenInit /\ [][GenNext]_vars

(* ---------- the savings arithmetic of a candidate as a function ------- *)
\* savings_per_hour, savings_per_month and savings_percent of one candidate
\* are a function of (current_price, alt_price).  In the walk the current
\* price is never 0 when they are computed; here the function is applied to
\* every current price 0..MaxPrice and every candidate price that passed the
\* `alt_price == 0` test.
PctInit ==
    /\ script \in Scripts
    /\ region \in Regions
    /\ check_metrics = FALSE
    /\ inventory_size = 1
    /\ i = 1
    /\ instance = [type |-> IF script = "enhanced" THEN "m4.xlarge" ELSE "t3.large",
                   state |-> "running"]
    /\ pc = "savings"
    /\ pricing_cache = EmptyMap
    /\ instances_analyzed = 0
    /\ total_current_cost = 0
    /\ total_potential_savings = ZeroTotals
    /\ total_graviton_savings = 0
    /\ total_non_graviton_savings = 0
    /\ current_price \in 0..MaxPrice
    /\ metrics = NoMetrics
    /\ alternatives = IF script = "enhanced"
                      THEN get_alternative_instances(instance.type, Absent)
                      ELSE basic_get_alternative_instances(instance.type)
    /\ j = 1
    /\ best_savings_by_type = EmptyMap
    /\ best_graviton_savings = 0
    /\ best_non_graviton_savings = 0
    /\ report = NoReport
    /\ before = [analyzed |-> 0, cost |-> 0,
                 totals |-> IF script = "enhanced" THEN ZeroTotals
                            ELSE [c \in BasicCategories |-> 0]]
    /\ alt_prices = << >>
    /\ entries = << >>
    /\ spec_totals = before.totals
    /\ resolved = EmptyMap
    /\ last_price_call = NoCall
    /\ last_metrics_call = NoMetricsCall

\* savings_per_hour = current_price - alt_price; savings_per_month = ... * 730;
\* savings_percent = ... if current_price > 0 else 0
ComputeSavings ==
    /\ pc = "savings"
    /\ \E alt_price \in Prices :
         LET alt_type == IF script = "enhanced" THEN alternatives[j].type
                         ELSE alternatives[j][1]
         IN
         /\ alt_prices' = Append(alt_prices, alt_price)
         /\ entries' = Append(entries, Entry(alt_type, alt_price, current_price))
    /\ pc' = "savings_done"
    /\ UNCHANGED <<config, i, instance, pricing_cache, fleet, locals, report, before,
                   spec_totals, resolved, last_price_call, last_metrics_call>>

\* both scripts' walks, and the savings arithmetic on every current price
PctNext == Next \/ ComputeSavings

SpecPct == (Init \/ PctInit) /\ [][PctNext]_vars

(* ------------------------------ claims -------------------------------- *)
Categories == DOMAIN CategoryTotals

\* the walk is between two instances: the instance i (if any) is Done
AtDone == pc = "next" /\ i >= 1

\* the instance that is Done was counted as analysed
Analysed == instances_analyzed = before.analyzed + 1

\* C1: for every instance and every category the amount added to the fleet
\* total is max(0, largest monthly saving among the instance's candidates of
\* that category with a nonzero resolved price), and the fleet total is the
\* sum of these amounts over the analysed instances.
C1_BestPerCategorySummed ==
    /\ pc = "next" =>
         \A c \in Categories :
            /\ CategoryTotals[c] = before.totals[c] + BestOf(c)
            /\ CategoryTotals[c] = spec_totals[c]
    /\ pc = "end" => CategoryTotals = spec_totals

\* C1 witness: a second analysed instance is Done; it adds a positive best to
\* a category that already had a total, and in another category all of its
\* priced candidates cost more, which adds 0.
C1_Witness ==
    /\ AtDone /\ Analysed /\ instances_analyzed = 2
    /\ \E c \in Categories : BestOf(c) > 0 /\ before.totals[c] > 0
    /\ \E c \in Categories :
          /\ MonthlySavingsOf(c) # {}
          /\ Max(MonthlySavingsOf(c)) < 0
          /\ CategoryTotals[c] = before.totals[c]

\* C2: category totals never decrease from their value before the instance
\* being processed, and are never negative.
C2_TotalsMonotone ==
    \A c \in Categories :
        /\ before.totals[c] >= 0
        /\ CategoryTotals[c] >= before.totals[c]

\* C2 witness: an analysed instance whose priced candidates all cost more is
\* Done after an instance that contributed, and no total went down.
C2_Witness ==
    /\ AtDone /\ Analysed
    /\ entries # << >>
    /\ \A k \in 1..Len(entries) : entries[k].savings_per_month < 0
    /\ \E c \in Categories : before.totals[c] > 0
    /\ CategoryTotals = before.totals

\* C3: an instance that is terminated, whose current price is 0 or whose
\* candidate set is empty is Done without any contribution: instances
\* analysed, total current cost and every category total are unchanged.
C3_SkippedContributesNothing ==
    AtDone /\ (instance.state = "terminated" \/ current_price = 0 \/ alternatives = << >>)
        => Snapshot = before

\* C3, for the enhanced script alone (where it holds)
C3_EnhancedSkips == script = "enhanced" => C3_SkippedContributesNothing

\* a terminated instance of the enhanced script is Done without contribution
C3_EnhancedWitness ==
    /\ script = "enhanced" /\ AtDone /\ instance.state = "terminated"
    /\ before.analyzed > 0


\* C4 as stated: a repeated resolution of a pair returns the price of the
\* previous resolution without asking the collaborator, whatever the previous
\* outcome was.
C4_RepeatIsCacheHit ==
    last_price_call.repeated =>
        /\ last_price_call.ret = last_price_call.prev.ret
        /\ ~last_price_call.invoked

\* C4 amended: when the previous resolution of the pair obtained a price (from
\* the collaborator or from the cache), the repeated resolution returns the
\* identical price without asking the collaborator.
C4_RepeatAfterSuccessIsCacheHit ==
    last_price_call.repeated /\ last_price_call.prev.ok =>
        /\ last_price_call.ret = last_price_call.prev.ret
        /\ ~last_price_call.invoked

\* C4 witness: a pair resolved with a price before is resolved again.
C4_Witness ==
    /\ last_price_call.repeated /\ last_price_call.prev.ok
    /\ last_price_call.outcome = "hit"
    /\ last_price_call.ret = MaxPrice

\* C5: when the pricing collaborator fails (exception or empty match list),
\* get_instance_price returns 0 and nothing is raised to the caller.
C5_FailureReturnsZero ==
    last_price_call.outcome \in {"error", "empty"} =>
        /\ last_price_call.ret = 0
        /\ pc # "aborted"

\* C5 witness: the price of a candidate failed with an exception and the loop
\* over the candidates went on.
C5_Witness ==
    /\ last_price_call.outcome = "error"
    /\ pc = "evaluate" /\ j = 2
    /\ alt_prices = << 0 >>

\* C6: a candidate whose resolved price is 0 yields no recommendation entry
\* and never becomes a per-category best; entries are at most the candidates.
CodeBest(c) ==
    IF script = "enhanced"
    THEN (IF c \in DOMAIN best_savings_by_type THEN best_savings_by_type[c] ELSE 0)
    ELSE (IF c = "graviton" THEN best_graviton_savings ELSE best_non_graviton_savings)

C6_ZeroPriceExcluded ==
    pc \in {"evaluate", "next"} =>
        /\ Len(entries) <= Len(alternatives)
        /\ Len(entries) = Cardinality({k \in 1..Len(alt_prices) : alt_prices[k] # 0})
        /\ \A k \in 1..Len(entries) : entries[k].alt_price # 0
        /\ \A c \in Categories : CodeBest(c) \in MonthlySavingsOf(c) \cup {0}

\* C6 witness: an instance is Done with one unpriced and one priced candidate
C6_Witness ==
    /\ AtDone /\ Analysed
    /\ \E k \in 1..Len(alt_prices) : alt_prices[k] = 0
    /\ Len(entries) >= 1
    /\ Len(entries) < Len(alternatives)

HasDownsize(alts) == \E k \in 1..Len(alts) : alts[k].category = "downsize"

\* C7: without utilization data (no samples, collaborator failure, instance
\* not running, metrics disabled) has_data is false, average and maximum are
\* absent, and no downsize candidate is generated.
C7_NoDataNoDownsize ==
    script = "enhanced" /\ pc \in {"generate", "evaluate"} =>
        /\ (last_metrics_call.kind \in {"error", "empty", "skipped"}) => ~metrics.has_data
        /\ (~check_metrics \/ instance.state # "running") => ~metrics.has_data
        /\ ~metrics.has_data =>
              /\ metrics.cpu_avg = Absent
              /\ metrics.cpu_max = Absent
              /\ ~HasDownsize(alternatives)

\* C7 witness: candidates were generated for a running instance of a size
\* with a shrink entry whose metrics came back empty.
C7_Witness ==
    /\ script = "enhanced" /\ pc = "evaluate"
    /\ last_metrics_call.kind = "empty"
    /\ instance.type = "m4.xlarge"
    /\ Len(alternatives) = 3

\* C8: for a well-formed type whose size has a shrink entry and an average
\* below 20, the candidates are non-empty, the last is the downsize to the
\* same family at the table's smaller size, and no other is a downsize.
C8_DownsizeLast ==
    script = "enhanced" /\ pc = "generated" =>
        \A f \in GenFamilies : \A z \in DOMAIN downsize_map :
            (/\ instance.type = f \o "." \o z
             /\ metrics.cpu_avg # Absent
             /\ metrics.cpu_avg[1].num < 20 * metrics.cpu_avg[1].den)
            => /\ alternatives # << >>
               /\ alternatives[Len(alternatives)].category = "downsize"
               /\ alternatives[Len(alternatives)].type = f \o "." \o downsize_map[z]
               /\ \A k \in 1..(Len(alternatives) - 1) :
                     alternatives[k].category # "downsize"

\* C8 witness: m5.xlarge at 19.5 percent yields three family candidates and
\* the downsize to m5.large last.
C8_Witness ==
    /\ script = "enhanced" /\ pc = "generated"
    /\ instance.type = "m5.xlarge"
    /\ metrics.cpu_avg = Present([num |-> 39, den |-> 2])
    /\ Len(alternatives) = 4
    /\ alternatives[4].type = "m5.large"

\* C9: the summary is produced exactly when an instance was counted as
\* analysed, an instance is counted exactly when it passes the price and
\* candidate filters, and with none counted only "no recommendations" is emitted.
C9_SummaryIffAnalysed ==
    /\ pc \notin {"end", "aborted"} => report = NoReport
    /\ AtDone => (Analysed <=> current_price > 0 /\ alternatives # << >>)
    /\ AtDone => instances_analyzed \in {before.analyzed, before.analyzed + 1}
    /\ pc = "end" =>
          /\ report.kind = "summary" <=> instances_analyzed > 0
          /\ report.kind = "no_recommendations" <=> instances_analyzed = 0

\* C9 witness: two instances were walked, none passed the filters, and only
\* "no recommendations" was emitted.
C9_Witness ==
    /\ pc = "end" /\ i = 2
    /\ instances_analyzed = 0
    /\ report.kind = "no_recommendations"
    /\ current_price = 0

\* C10: whatever the collaborators' failures, the pass never aborts, every
\* record of the inventory is walked and the pass ends.
C10_PassTerminates == <>(pc = "end" /\ i = inventory_size)

\* C10 witness: the first instance (type "m5") had its price fail, the second
\* one was analysed, and the pass ended.
C10_Witness ==
    /\ pc = "end" /\ i = 2
    /\ instance.type = "m4.xlarge" /\ Analysed
    /\ \E p \in DOMAIN resolved : p[1] = "m5" /\ ~resolved[p].ok

\* C11: no percentage computation divides by zero.  The savings percent of an
\* entry never has a zero divisor and is 0 when the current price is 0; the
\* summary never faults, a summary is produced only with a nonzero total
\* current monthly cost, and none of its percentages (per category, maximum)
\* has a zero divisor.
C11_NoDivisionByZero ==
    /\ pc # "aborted"
    /\ \A k \in 1..Len(entries) :
          /\ entries[k].savings_percent.den # 0
          /\ current_price = 0 => entries[k].savings_percent = [num |-> 0, den |-> 1]
    /\ report.kind = "summary" =>
          /\ ~report.raised
          /\ report.current_cost # 0
          /\ report.current_cost = total_current_cost
          /\ \A c \in DOMAIN report.pct : report.pct[c].den # 0
          /\ \A k \in 1..Len(report.max_pct) : report.max_pct[k].den # 0

\* C11 witness: the enhanced script, whose summary divides without a guard,
\* produced a summary with a per-category percentage and the maximum
\* percentage, after an instance whose entries carry percentages.
C11_Witness ==
    /\ script = "enhanced" /\ pc = "end"
    /\ report.kind = "summary"
    /\ DOMAIN report.pct # {}
    /\ report.max_pct # << >>
    /\ entries # << >>

\* C12: every collaborator failure is reported.  When get_instance_price
\* returns 0 because the pricing call raised or matched nothing, and when
\* get_instance_metrics returns has_data = false because the metrics call
\* raised, a warning was printed before the result was returned.
C12_FailuresWarned ==
    /\ last_price_call.outcome \in {"error", "empty"} =>
          /\ last_price_call.ret = 0
          /\ last_price_call.warned
    /\ last_metrics_call.kind = "error" =>
          /\ ~metrics.has_data
          /\ last_metrics_call.warned

\* C12, for the failures that are exceptions (where it holds): the except
\* branches of both functions print the warning.
C12_ExceptionsWarned ==
    /\ last_price_call.outcome = "error" =>
          /\ last_price_call.ret = 0
          /\ last_price_call.warned
    /\ last_metrics_call.kind = "error" =>
          /\ ~metrics.has_data
          /\ last_metrics_call.warned

\* a price failed with an exception, then the metrics of the instance did
C12_ExceptionsWitness ==
    /\ pc = "generate"
    /\ last_metrics_call.kind = "error" /\ last_metrics_call.warned
    /\ \E p \in DOMAIN resolved : ~resolved[p].ok

\* the step that is being taken asks the metrics collaborator
MetricsInvoked ==
    /\ last_metrics_call' # last_metrics_call
    /\ last_metrics_call'.kind \in {"error", "empty", "data"}

\* the step that is being taken adds to a category total
Aggregates == total_potential_savings' # total_potential_savings

\* the order of one step of the enhanced script's per-instance evaluation
C13_Step ==
    script = "enhanced" =>
        \* Start only from Done (or the beginning), and with the next record
        /\ (pc' = "start" \/ i' # i) => (pc = "next" /\ pc' = "start" /\ i' = i + 1)
        \* the price is resolved first, for the instance's own type
        /\ (pc' = "price" /\ pc # "price") => (pc = "start" /\ current_price = -1)
        /\ current_price' # current_price =>
              (pc = "price" \/ (pc = "next" /\ current_price' = -1))
        /\ pc' = "profile" =>
              /\ pc = "price" /\ current_price' # 0
              /\ last_price_call'.key = <<instance.type, region>>
        \* the metrics collaborator: after the price, price nonzero, running, enabled
        /\ MetricsInvoked =>
              /\ pc = "profile" /\ current_price > 0
              /\ instance.state = "running" /\ check_metrics
              /\ alternatives = << >>
        \* candidates only after the profiling step
        /\ pc' = "generate" => pc = "profile"
        /\ alternatives' # alternatives =>
              (pc = "generate" \/ (pc = "next" /\ alternatives' = << >>))
        /\ (pc' = "evaluate" /\ pc # "evaluate") =>
              (pc = "generate" /\ last_metrics_call.kind # None)
        \* aggregation only after the candidates were generated and evaluated
        /\ Aggregates =>
              /\ pc = "evaluate" /\ alternatives # << >>
              /\ Len(alt_prices) = Len(alternatives)
              /\ pc' = "next"
        \* nothing of the next instance before this one is Done
        /\ pc' = "next" =>
              pc \in {"start", "price", "generate", "evaluate"}
        /\ pc' = "summary" => (pc = "next" /\ i = inventory_size)

\* C13: every step of the pass follows the per-instance state machine: price
\* first; metrics only afterwards, only for a nonzero price and a running
\* instance with metrics enabled; candidates only after the profiling step;
\* aggregation only after the candidates; the next instance only after Done.
C13_StepsInOrder == [][C13_Step]_vars

\* C13 witness: a second instance of the enhanced script is Done after being
\* priced, profiled with data, given candidates and aggregated, the first one
\* having been analysed before it.
C13_Witness ==
    /\ script = "enhanced" /\ AtDone /\ i = 2
    /\ Analysed /\ before.analyzed = 1
    /\ last_metrics_call.kind = "data"
    /\ Len(alt_prices) = Len(alternatives)
    /\ \E c \in Categories : CategoryTotals[c] > before.totals[c]

\* the target type of a candidate of whichever script runs
TargetOf(alt) == IF script = "enhanced" THEN alt.type ELSE alt[1]

\* some generated candidate targets the current type
SelfCandidate == \E k \in 1..Len(alternatives) : TargetOf(alternatives[k]) = instance.type

\* C14: for every current type and every utilization average, no generated
\* candidate has the current type as its target, in either script.
C14_NeverSelf == pc = "generated" => ~SelfCandidate

\* C14, as the code has it: a candidate targets the current type exactly for
\* the enhanced script's t3a family, which the startswith('t3') rule maps to
\* t4g and t3a of the same size.
C14_SelfOnlyForT3a ==
    pc = "generated" =>
        (SelfCandidate <=>
            /\ script = "enhanced"
            /\ Len(Split(instance.type, ".")) = 2
            /\ Split(instance.type, ".")[1] = "t3a")

\* t3a.large at 10 percent: t4g.large, t3a.large (itself), downsize t3a.medium
C14_SelfWitness ==
    /\ script = "enhanced" /\ pc = "generated"
    /\ instance.type = "t3a.large"
    /\ Len(alternatives) = 3
    /\ alternatives[2].type = "t3a.large"

====
